---- MODULE Spec2Model ----
(***************************************************************************)
(* Dungeon generation of the roguelike prototype: the BSP splitter         *)
(* (map.rs: Rect::subdivide, bsp_split), the room carver, and the floor,   *)
(* corridor and wall placement of setup_game (game.rs); then the class     *)
(* menu (menu.rs), the movement systems (game.rs) and the minimap          *)
(* highlight (minimap.rs) that run on the generated dungeon.               *)
(***************************************************************************)
EXTENDS Integers, Sequences, FiniteSets, TLC

VARIABLES
    pc,               \* position in bsp_split / setup_game
    root,             \* the rect handed to bsp_split
    depth,            \* the number of rounds asked for
    round,            \* rounds completed so far (the `for _ in 0..depth` counter)
    leaves,           \* bsp_split: the working leaf list
    next,             \* bsp_split: the list being built in the current round
    idx,              \* bsp_split: 1-based position of `r` in `for r in &leaves`
    last,             \* the outcome of the latest subdivide call
    rooms,            \* the Vec<Room> bsp_split returns
    floor_positions,  \* setup_game: HashSet<Position> of floor cells
    corridors,        \* setup_game: per routed corridor, the coin and the cells it inserted
    walls,            \* setup_game: per cell, the number of wall tiles spawned on it
    app_state,        \* State<AppState>: "Menu" or "InGame"
    next_state,       \* NextState<AppState>: the transition asked for, or "None"
    selected_class,   \* SelectedClass.0: "None" or the class chosen
    started_in,       \* the AppState the run started in
    button_color,     \* menu: BackgroundColor of each class button
    players,          \* the Position of every entity with Player
    enemies,          \* the Position of every entity with Enemy
    tile_color        \* minimap: BackgroundColor of each minimap tile

vars == <<pc, root, depth, round, leaves, next, idx, last, rooms,
          floor_positions, corridors, walls,
          app_state, next_state, selected_class, started_in, button_color,
          players, enemies, tile_color>>

----------------------------------------------------------------------------
(* Bounds of the model *)

\* largest root width and height drawn for a direct call of bsp_split
MaxW == 19
MaxH == 14
\* largest map width and height drawn for setup_game
MaxMapW == 19
MaxMapH == 13
\* largest map width and height drawn for a played game
MaxPlayW == 13
MaxPlayH == 4
\* roots of a direct call have dimensions down to -NegDim (invalid roots)
NegDim == 1
\* largest depth drawn for a direct call of bsp_split
MaxDepth == 3

\* origins of the roots drawn for a direct call
Origins == {<<0, 0>>, <<-3, 2>>}

----------------------------------------------------------------------------
(* Rect, Room, Position *)

Rect(x, y, w, h) == [x |-> x, y |-> y, width |-> w, height |-> h]

Room(i, b, inn) == [id |-> i, bounds |-> b, inner |-> inn]

Position(x, y) == [x |-> x, y |-> y]

\* i32 division truncates toward zero
TruncDiv(a, b) == IF a >= 0 THEN a \div b ELSE -((-a) \div b)

\* the half-lengths are not halved
center_undivided(r) == Position(r.x + r.width, r.y + r.height)

center(r) == Position(r.x + TruncDiv(r.width, 2), r.y + TruncDiv(r.height, 2))

Min(a, b) == IF a < b THEN a ELSE b
Max(a, b) == IF a < b THEN b ELSE a

----------------------------------------------------------------------------
(* The random source *)

\* rng.gen_bool(0.5): either outcome
gen_bool == BOOLEAN

gen_range_inclusive(lo, hi) == lo..hi

\* the range starts at 1 instead of lo
gen_range_from_one(lo, hi) == 1..(hi - 1)

\* rng.gen_range(lo..hi): any value of the half-open range
gen_range(lo, hi) == lo..(hi - 1)

----------------------------------------------------------------------------
(* Rect::subdivide *)

min_size == 6

\* `>=` written for `>`
can_split_h_inclusive(r) == r.height >= min_size * 2

can_split_h(r) == r.height > min_size * 2

\* the width test copied from the height test without changing the field
can_split_v_copied(r) == r.height > min_size * 2

can_split_v(r) == r.width > min_size * 2

\* what a subdivide call did: the axis it took ("h", "v" or "none"), whether
\* the axis came from the coin, the offset it drew, and the Option it returned
\* (<<>> for None, <<a, b>> for Some((a, b)))
Outcome(r, axis, coin, drew, s, out) ==
    [rect |-> r, axis |-> axis, coin |-> coin, drew |-> drew, split |-> s, out |-> out]

NoCall == Outcome(Rect(0, 0, 0, 0), "none", FALSE, FALSE, 0, <<>>)

\* the second child keeps the parent's height
split_h_children_overlong(r, s) ==
    << Rect(r.x, r.y, r.width, s), Rect(r.x, r.y + s, r.width, r.height) >>

split_h_children(r, s) ==
    << Rect(r.x, r.y, r.width, s), Rect(r.x, r.y + s, r.width, r.height - s) >>

\* the second child is not moved to the offset
split_v_children_unshifted(r, s) ==
    << Rect(r.x, r.y, s, r.height), Rect(r.x, r.y, r.width - s, r.height) >>

\* the children are returned in the opposite order
split_v_children_swapped(r, s) ==
    << Rect(r.x + s, r.y, r.width - s, r.height), Rect(r.x, r.y, s, r.height) >>

split_v_children(r, s) ==
    << Rect(r.x, r.y, s, r.height), Rect(r.x + s, r.y, r.width - s, r.height) >>

\* the `if split_horizontal { .. } else { .. }` part, for either axis
split_along(r, horizontal, coin) ==
    LET dim       == IF horizontal THEN r.height ELSE r.width
        max_split == dim - min_size
        min_split == min_size
        axis      == IF horizontal THEN "h" ELSE "v"
    IN  IF min_split < max_split
        THEN { Outcome(r, axis, coin, TRUE, s,
                       IF horizontal THEN split_h_children(r, s)
                                     ELSE split_v_children(r, s))
               : s \in gen_range(min_split, max_split) }
        ELSE { Outcome(r, axis, coin, FALSE, 0, <<>>) }

\* the axis is always taken from the coin, also when only one axis is eligible
subdivide_coin_always(r) ==
    IF ~can_split_h(r) /\ ~can_split_v(r)
    THEN { Outcome(r, "none", FALSE, FALSE, 0, <<>>) }
    ELSE UNION { split_along(r, b, TRUE) : b \in gen_bool }

\* every outcome subdivide can have on r, over all random draws
subdivide(r) ==
    IF ~can_split_h(r) /\ ~can_split_v(r)
    THEN { Outcome(r, "none", FALSE, FALSE, 0, <<>>) }
    ELSE IF can_split_h(r) /\ can_split_v(r)
         THEN UNION { split_along(r, b, TRUE) : b \in gen_bool }
         ELSE split_along(r, can_split_h(r), FALSE)

----------------------------------------------------------------------------
(* bsp_split *)

margin == 1

\* the margin moves the corner but does not shrink the rect
carve_inner_unshrunk(bounds) ==
    Rect(bounds.x + margin, bounds.y + margin, bounds.width, bounds.height)

carve_inner(bounds) ==
    Rect(bounds.x + margin, bounds.y + margin,
         bounds.width - margin * 2, bounds.height - margin * 2)

\* ids counted from 1
carve_one_based(ls) == [i \in 1..Len(ls) |-> Room(i, ls[i], carve_inner(ls[i]))]

\* ids taken from the reversed enumeration
carve_reversed_ids(ls) ==
    [i \in 1..Len(ls) |-> Room(Len(ls) - i, ls[i], carve_inner(ls[i]))]

carve(ls) == [i \in 1..Len(ls) |-> Room(i - 1, ls[i], carve_inner(ls[i]))]

AppUnchanged ==
    UNCHANGED <<app_state, next_state, selected_class, started_in, button_color,
                players, enemies, tile_color>>

GameUnchanged == UNCHANGED <<floor_positions, corridors, walls>> /\ AppUnchanged

\* one iteration of `for r in &leaves`
SplitLeaf ==
    /\ pc = "split"
    /\ round < depth
    /\ idx <= Len(leaves)
    /\ \E o \in subdivide(leaves[idx]) :
         /\ last' = o
         /\ next' = IF o.out # <<>> THEN next \o o.out ELSE Append(next, leaves[idx])
    /\ idx' = idx + 1
    /\ UNCHANGED <<pc, root, depth, round, leaves, rooms>>
    /\ GameUnchanged

\* `leaves = next;` and the next turn of `for _ in 0..depth`
EndRound ==
    /\ pc = "split"
    /\ round < depth
    /\ idx > Len(leaves)
    /\ leaves' = next
    /\ next' = <<>>
    /\ idx' = 1
    /\ round' = round + 1
    /\ UNCHANGED <<pc, root, depth, last, rooms>>
    /\ GameUnchanged

\* the enumerate/map/collect after the rounds: bsp_split returns
Carve ==
    /\ pc = "split"
    /\ round >= depth
    /\ rooms' = carve(leaves)
    /\ pc' = "carved"
    /\ UNCHANGED <<root, depth, round, leaves, next, idx, last>>
    /\ GameUnchanged

BspInit(r, d) ==
    /\ pc = "split"
    /\ root = r
    /\ depth = d
    /\ round = 0
    /\ leaves = <<r>>
    /\ next = <<>>
    /\ idx = 1
    /\ last = NoCall
    /\ rooms = <<>>
    /\ floor_positions = {}
    /\ corridors = <<>>
    /\ walls = <<>>
    /\ app_state = "InGame"
    /\ next_state = "None"
    /\ selected_class = "None"
    /\ started_in = "InGame"
    /\ button_color = <<>>
    /\ players = <<>>
    /\ enemies = <<>>
    /\ tile_color = <<>>

\* bsp_split called directly, on any root and depth
Init ==
    \E o \in Origins, w \in (0 - NegDim)..MaxW, h \in (0 - NegDim)..MaxH, d \in 0..MaxDepth :
        BspInit(Rect(o[1], o[2], w, h), d)

Next == SplitLeaf \/ EndRound \/ Carve

Spec == Init /\ [][Next]_vars

----------------------------------------------------------------------------
(* setup_game: rooms, corridors, walls *)

\* the depth setup_game passes to bsp_split
GameDepth == 5

\* the cells `for y in r.y..r.y + r.height { for x in r.x..r.x + r.width` visits
Cells(r) ==
    { Position(x, y) : x \in r.x..(r.x + r.width - 1), y \in r.y..(r.y + r.height - 1) }

\* "Spawn rooms": every inner cell of every room becomes a floor cell
SpawnRooms ==
    /\ pc = "carved"
    /\ floor_positions' = UNION { Cells(rooms[i].inner) : i \in 1..Len(rooms) }
    /\ pc' = "corridors"
    /\ UNCHANGED <<root, depth, round, leaves, next, idx, last, rooms, corridors, walls>>
    /\ AppUnchanged

\* `..` written for `..=`: the last cell of the leg is left out
h_leg_exclusive(xa, xb, y) == { Position(x, y) : x \in Min(xa, xb)..(Max(xa, xb) - 1) }

\* `for x in xa.min(xb)..=xa.max(xb)` inserting (x, y)
h_leg(xa, xb, y) == { Position(x, y) : x \in Min(xa, xb)..Max(xa, xb) }

\* `for y in ya.min(yb)..=ya.max(yb)` inserting (x, y)
v_leg(ya, yb, x) == { Position(x, y) : y \in Min(ya, yb)..Max(ya, yb) }

\* only the first leg of the L is laid
corridor_cells_first_leg(c1, c2, heads) ==
    IF heads THEN h_leg(c1.x, c2.x, c1.y) ELSE v_leg(c1.y, c2.y, c1.x)

\* the cells one corridor inserts, from c1 to c2, by the coin
corridor_cells(c1, c2, heads) ==
    IF heads
    THEN h_leg(c1.x, c2.x, c1.y) \cup v_leg(c1.y, c2.y, c2.x)
    ELSE v_leg(c1.y, c2.y, c1.x) \cup h_leg(c1.x, c2.x, c2.y)

\* one iteration of `for i in 1..rooms.len()`; the i-th corridor joins
\* rooms[i - 1] and rooms[i] of the 0-based Vec, rooms[i] and rooms[i + 1] here
Corridor ==
    /\ pc = "corridors"
    /\ Len(corridors) + 1 < Len(rooms)
    /\ LET i  == Len(corridors) + 1
           c1 == center(rooms[i].inner)
           c2 == center(rooms[i + 1].inner)
       IN  \E heads \in gen_bool :
             LET cells == corridor_cells(c1, c2, heads)
             IN  /\ floor_positions' = floor_positions \cup cells
                 /\ corridors' = Append(corridors,
                        [from |-> c1, to |-> c2, heads |-> heads, cells |-> cells])
    /\ UNCHANGED <<pc, root, depth, round, leaves, next, idx, last, rooms, walls>>
    /\ AppUnchanged

\* the corridor loop is over
CorridorsDone ==
    /\ pc = "corridors"
    /\ Len(corridors) + 1 >= Len(rooms)
    /\ pc' = "walls"
    /\ UNCHANGED <<root, depth, round, leaves, next, idx, last, rooms,
                   floor_positions, corridors, walls>>
    /\ AppUnchanged

\* only the four orthogonal neighbours
Deltas_orthogonal == { d \in (-1..1) \X (-1..1) : (d[1] = 0) # (d[2] = 0) }

\* `for dy in -1..=1 { for dx in -1..=1 { if dx == 0 && dy == 0 { continue; }`
Deltas == { d \in (-1..1) \X (-1..1) : ~(d[1] = 0 /\ d[2] = 0) }

neighbor(pos, d) == Position(pos.x + d[1], pos.y + d[2])

\* the `!floor_positions.contains(&neighbor)` test is left out
is_wall_spawn_unchecked(floor, n) == TRUE

\* `if !floor_positions.contains(&neighbor)`: a tile is spawned on neighbor n
is_wall_spawn(floor, n) == n \notin floor

\* the deltas by which the wall loop arrives at c: the loop visits every floor
\* cell pos and delta d and looks at pos + d, so it looks at c once per delta d
\* with c - d a floor cell
arrivals(floor, c) == { d \in Deltas : Position(c.x - d[1], c.y - d[2]) \in floor }

\* each wall cell gets a single tile
wall_tiles_deduplicated(floor) ==
    LET around == UNION { { neighbor(pos, d) : d \in Deltas } : pos \in floor }
        cells  == { c \in around : is_wall_spawn(floor, c) }
    IN  [ c \in cells |-> 1 ]

\* per cell, how many wall tiles the spawn_wall_tile calls put on it
wall_tiles(floor) ==
    LET around == UNION { { neighbor(pos, d) : d \in Deltas } : pos \in floor }
        cells  == { c \in around : is_wall_spawn(floor, c) }
    IN  [ c \in cells |-> Cardinality(arrivals(floor, c)) ]

\* "Spawn walls around floors"
SpawnWalls ==
    /\ pc = "walls"
    /\ walls' = wall_tiles(floor_positions)
    /\ pc' = "minimap"
    /\ UNCHANGED <<root, depth, round, leaves, next, idx, last, rooms,
                   floor_positions, corridors>>
    /\ AppUnchanged

\* setup_game: the map rect at the origin, depth 5
GameInit ==
    \E w \in 1..MaxMapW, h \in 1..MaxMapH : BspInit(Rect(0, 0, w, h), GameDepth)

GameNext ==
    \/ SplitLeaf
    \/ EndRound
    \/ Carve
    \/ SpawnRooms
    \/ Corridor
    \/ CorridorsDone
    \/ SpawnWalls

GameSpec == GameInit /\ [][GameNext]_vars

----------------------------------------------------------------------------
(* setup_game: minimap tiles, enemies, player *)

\* the (Position, RoomId) pairs of the tiles spawned per inner cell of every
\* room: the floor tiles of "Spawn rooms" and the minimap tiles carry the same pairs
room_tiles(rms) ==
    UNION { { [pos |-> c, room |-> rms[i].id] : c \in Cells(rms[i].inner) }
            : i \in 1..Len(rms) }

\* spawn_minimap_ui_tiles: one dark gray tile per inner cell of every room
SpawnMinimap ==
    /\ pc = "minimap"
    /\ tile_color' = [ tile \in room_tiles(rooms) |-> "DARK_GRAY" ]
    /\ pc' = "enemies"
    /\ UNCHANGED <<root, depth, round, leaves, next, idx, last, rooms,
                   floor_positions, corridors, walls,
                   app_state, next_state, selected_class, started_in, button_color,
                   players, enemies>>

\* "Spawn Enemies": each room but the first gets an enemy on its inner center
\* when its gen_bool(0.6) draw says so
SpawnEnemies ==
    /\ pc = "enemies"
    /\ \E draws \in [2..Len(rooms) -> gen_bool] :
         LET others == [k \in 1..(Len(rooms) - 1) |-> k + 1]
             chosen == SelectSeq(others, LAMBDA i : draws[i])
         IN  enemies' = [k \in 1..Len(chosen) |-> center(rooms[chosen[k]].inner)]
    /\ pc' = "player"
    /\ UNCHANGED <<root, depth, round, leaves, next, idx, last, rooms,
                   floor_positions, corridors, walls,
                   app_state, next_state, selected_class, started_in, button_color,
                   players, tile_color>>

\* "Spawn player in center of first room", or panic!("No class selected!")
SpawnPlayer ==
    /\ pc = "player"
    /\ IF selected_class # "None"
       THEN /\ players' = Append(players, center(rooms[1].inner))
            /\ pc' = "running"
       ELSE /\ players' = players
            /\ pc' = "panicked"
    /\ UNCHANGED <<root, depth, round, leaves, next, idx, last, rooms,
                   floor_positions, corridors, walls,
                   app_state, next_state, selected_class, started_in, button_color,
                   enemies, tile_color>>

----------------------------------------------------------------------------
(* menu.rs: the class menu *)

\* the classes of the three buttons setup_menu spawns
Classes == {"Warrior", "Mage", "Ranger"}

Interactions == {"Pressed", "Hovered", "None"}

\* the colour the menu system gives a button for its interaction
interaction_color(i) ==
    IF i = "Pressed" THEN "PRESSED_BUTTON"
    ELSE IF i = "Hovered" THEN "HOVERED_BUTTON" ELSE "NORMAL_BUTTON"

\* a press requests the transition but does not store the class
menu_selected_forgotten(selected, pressed) == {selected}

\* SelectedClass after the loop over the changed buttons: the class of the
\* pressed button the loop visited last, or unchanged when none was pressed
menu_selected(selected, pressed) == IF pressed = {} THEN {selected} ELSE pressed

\* one run of the menu system: the buttons whose Interaction changed
Menu ==
    /\ pc = "menu"
    /\ app_state = "Menu"
    /\ next_state = "None"
    /\ \E changed \in SUBSET Classes :
         \E inter \in [changed -> Interactions] :
            LET pressed == { c \in changed : inter[c] = "Pressed" }
            IN  /\ button_color' = [ c \in Classes |->
                       IF c \in changed THEN interaction_color(inter[c])
                                        ELSE button_color[c] ]
                /\ selected_class' \in menu_selected(selected_class, pressed)
                /\ next_state' = IF pressed # {} THEN "InGame" ELSE next_state
    /\ UNCHANGED <<pc, root, depth, round, leaves, next, idx, last, rooms,
                   floor_positions, corridors, walls,
                   app_state, started_in, players, enemies, tile_color>>

\* the state transition: OnExit(Menu) cleanup_menu despawns the buttons, and
\* OnEnter(InGame) starts setup_game, which calls bsp_split on the map rect
EnterGame ==
    /\ pc = "menu"
    /\ app_state = "Menu"
    /\ next_state = "InGame"
    /\ app_state' = "InGame"
    /\ next_state' = "None"
    /\ button_color' = <<>>
    /\ pc' = "split"
    /\ leaves' = <<root>>
    /\ round' = 0
    /\ idx' = 1
    /\ next' = <<>>
    /\ UNCHANGED <<root, depth, last, rooms, floor_positions, corridors, walls,
                   selected_class, started_in, players, enemies, tile_color>>

----------------------------------------------------------------------------
(* game.rs: player_movement and enemy_random_movement *)

\* the Position of every entity with Wall: spawn_wall_tile puts a Wall with
\* Position (x, y) on the cell it is called for
wall_entities(w) == DOMAIN w

Arrows == {"ArrowUp", "ArrowDown", "ArrowLeft", "ArrowRight"}

B2N(b) == IF b THEN 1 ELSE 0

\* the delta player_movement adds up from the keys just pressed
key_delta(keys) ==
    << B2N("ArrowRight" \in keys) - B2N("ArrowLeft" \in keys),
       B2N("ArrowUp" \in keys) - B2N("ArrowDown" \in keys) >>

\* the wall test is left out
is_blocked_never(wall_positions, new_pos) == FALSE

\* `wall_query.iter().any(|&pos| pos == new_pos)` / `wall_positions.contains(&new_pos)`
is_blocked(wall_positions, new_pos) == new_pos \in wall_positions

\* one run of player_movement, for any set of keys just pressed
PlayerMovement ==
    /\ pc = "running"
    /\ \E keys \in SUBSET Arrows :
         LET delta == key_delta(keys)
         IN  IF delta = <<0, 0>> \/ Len(players) # 1
             THEN players' = players
             ELSE LET new_pos == neighbor(players[1], delta)
                  IN  IF is_blocked(wall_entities(walls), new_pos)
                      THEN players' = players
                      ELSE players' = <<new_pos>>
    /\ UNCHANGED <<pc, root, depth, round, leaves, next, idx, last, rooms,
                   floor_positions, corridors, walls,
                   app_state, next_state, selected_class, started_in, button_color,
                   enemies, tile_color>>

\* `match rng.gen_range(0..4) { 0 => (0, 1), 1 => (0, -1), 2 => (-1, 0), _ => (1, 0) }`
enemy_delta(n) ==
    IF n = 0 THEN <<0, 1>>
    ELSE IF n = 1 THEN <<0, -1>>
    ELSE IF n = 2 THEN <<-1, 0>> ELSE <<1, 0>>

\* one run of enemy_random_movement in which the timer has just finished:
\* every enemy draws a step and takes it unless a wall is there
EnemyRandomMovement ==
    /\ pc = "running"
    /\ \E draws \in [1..Len(enemies) -> gen_range(0, 4)] :
         enemies' = [ k \in 1..Len(enemies) |->
                        LET new_pos == neighbor(enemies[k], enemy_delta(draws[k]))
                        IN  IF is_blocked(wall_entities(walls), new_pos)
                            THEN enemies[k] ELSE new_pos ]
    /\ UNCHANGED <<pc, root, depth, round, leaves, next, idx, last, rooms,
                   floor_positions, corridors, walls,
                   app_state, next_state, selected_class, started_in, button_color,
                   players, tile_color>>

----------------------------------------------------------------------------
(* minimap.rs: update_minimap_highlight *)

\* the (Position, RoomId) pairs of the tiles spawn_floor_tile and
\* spawn_wall_tile spawn: they are given no room and attach no RoomId
helper_room_tiles == {}

\* every stored (Position, RoomId) pair that floor_query iterates over
stored_room_tiles(rms) == room_tiles(rms) \cup helper_room_tiles

\* the values current_room_id can end with: {} for None, {id} for Some(id);
\* the loop stops at the first stored (Position, RoomId) whose Position is pos
current_room_ids(tiles, pos) ==
    LET found == { tile.room : tile \in { u \in tiles : u.pos = pos } }
    IN  IF found = {} THEN { {} } ELSE { {id} : id \in found }

\* None is compared as room 0
highlight_color_none_as_zero(room_id, current) ==
    IF current = {room_id} \/ (current = {} /\ room_id = 0) THEN "YELLOW" ELSE "DARK_GRAY"

\* `if Some(*room_id) == current_room_id { YELLOW } else { DARK_GRAY }`
highlight_color(room_id, current) ==
    IF current = {room_id} THEN "YELLOW" ELSE "DARK_GRAY"

\* one run of update_minimap_highlight
UpdateMinimapHighlight ==
    /\ pc = "running"
    /\ IF Len(players) # 1
       THEN tile_color' = tile_color
       ELSE \E current \in current_room_ids(stored_room_tiles(rooms), players[1]) :
              tile_color' = [ tile \in DOMAIN tile_color |->
                                highlight_color(tile.room, current) ]
    /\ UNCHANGED <<pc, root, depth, round, leaves, next, idx, last, rooms,
                   floor_positions, corridors, walls,
                   app_state, next_state, selected_class, started_in, button_color,
                   players, enemies>>

----------------------------------------------------------------------------
(* The application: menu, then the game on the generated dungeon *)

\* the run starts in the menu, after setup_menu has spawned the buttons
MenuInit(r) ==
    /\ pc = "menu"
    /\ root = r
    /\ depth = GameDepth
    /\ round = 0
    /\ leaves = <<>>
    /\ next = <<>>
    /\ idx = 1
    /\ last = NoCall
    /\ rooms = <<>>
    /\ floor_positions = {}
    /\ corridors = <<>>
    /\ walls = <<>>
    /\ app_state = "Menu"
    /\ next_state = "None"
    /\ selected_class = "None"
    /\ started_in = "Menu"
    /\ button_color = [ c \in Classes |-> "NORMAL_BUTTON" ]
    /\ players = <<>>
    /\ enemies = <<>>
    /\ tile_color = <<>>

\* a run of the application, from either AppState, with no class selected yet;
\* maps of at least 3 x 3 cells, the smallest on which a room has a floor cell
PlayInit ==
    \E w \in 3..MaxPlayW, h \in 3..MaxPlayH :
        \/ MenuInit(Rect(0, 0, w, h))
        \/ BspInit(Rect(0, 0, w, h), GameDepth)

PlayNext ==
    \/ Menu
    \/ EnterGame
    \/ SplitLeaf
    \/ EndRound
    \/ Carve
    \/ SpawnRooms
    \/ Corridor
    \/ CorridorsDone
    \/ SpawnWalls
    \/ SpawnMinimap
    \/ SpawnEnemies
    \/ SpawnPlayer
    \/ PlayerMovement
    \/ EnemyRandomMovement
    \/ UpdateMinimapHighlight

PlaySpec == PlayInit /\ [][PlayNext]_vars

----------------------------------------------------------------------------
(* Definitions the properties use *)

ValidRoot == root.width > 0 /\ root.height > 0

InRect(c, r) ==
    /\ r.x <= c.x /\ c.x < r.x + r.width
    /\ r.y <= c.y /\ c.y < r.y + r.height

Area(r) == r.width * r.height

RECURSIVE AreaSum(_)
AreaSum(rs) == IF rs = <<>> THEN 0 ELSE Area(Head(rs)) + AreaSum(Tail(rs))

\* the rects rs tile the root: every root cell in exactly one, none outside, areas add up
Tiles(rs) ==
    /\ \A c \in Cells(root) : Cardinality({ i \in 1..Len(rs) : InRect(c, rs[i]) }) = 1
    /\ \A i \in 1..Len(rs) : \A c \in Cells(rs[i]) : InRect(c, root)
    /\ AreaSum(rs) = Area(root)

Bounds(rms) == [i \in 1..Len(rms) |-> rms[i].bounds]

\* the root grown by two cells on every side
Grid == Cells(Rect(root.x - 2, root.y - 2, root.width + 4, root.height + 4))

Nbrs4(c) ==
    { Position(c.x + 1, c.y), Position(c.x - 1, c.y),
      Position(c.x, c.y + 1), Position(c.x, c.y - 1) }

Nbrs8(c) ==
    { Position(x, y) : x \in (c.x - 1)..(c.x + 1), y \in (c.y - 1)..(c.y + 1) } \ {c}

RECURSIVE Grow(_, _, _)
Grow(seen, frontier, floor) ==
    IF frontier = {} THEN seen
    ELSE LET new == (UNION { Nbrs4(f) : f \in frontier } \cap floor) \ seen
         IN  Grow(seen \cup new, new, floor)

\* the floor cells a flood fill from start reaches by orthogonal steps
Flood(floor, start) ==
    IF start \notin floor THEN {} ELSE Grow({start}, {start}, floor)

----------------------------------------------------------------------------
(* Properties of bsp_split, checked under Spec *)

\* C1: for a root of positive width and height, the leaf list after every
\* round, and the bounds of the returned Rooms, tile the root exactly: each
\* root cell is in exactly one rect, no rect cell is outside the root, and the
\* areas sum to the root's area.
C1_LeavesTileRoot ==
    ValidRoot =>
        /\ (pc = "split" /\ idx = 1) => Tiles(leaves)
        /\ pc = "carved" => Tiles(Bounds(rooms))

C1_Witness ==
    /\ pc = "carved"
    /\ ValidRoot
    /\ round >= 2
    /\ Len(rooms) >= 4

\* C2: every returned Room's inner lies within its bounds.
C2_InnerWithinBounds ==
    pc = "carved" =>
        \A i \in 1..Len(rooms) :
            LET b == rooms[i].bounds
                n == rooms[i].inner
            IN  /\ n.x >= b.x
                /\ n.y >= b.y
                /\ n.x + n.width <= b.x + b.width
                /\ n.y + n.height <= b.y + b.height

C2_Witness ==
    /\ pc = "carved"
    /\ ValidRoot
    /\ Len(rooms) >= 3
    /\ \E i \in 1..Len(rooms) : rooms[i].inner.width > 0 /\ rooms[i].inner.height > 0

\* C3: on a root of positive width and height, every returned Room has
\* inner.width > 0 and inner.height > 0.
C3_InnerPositive ==
    (pc = "carved" /\ ValidRoot) =>
        \A i \in 1..Len(rooms) : rooms[i].inner.width > 0 /\ rooms[i].inner.height > 0

\* C9: bsp_split on a root of non-positive width or height fails fast: it
\* never returns Rooms.
C9_InvalidRootNeverReturns ==
    ~ValidRoot => pc # "carved"

\* C10 as claimed: a drawn split offset s lies strictly between min_size and
\* d - min_size, d the length of the split axis.
C10_SplitStrictlyInside ==
    last.drew =>
        LET d == IF last.axis = "h" THEN last.rect.height ELSE last.rect.width
        IN  min_size < last.split /\ last.split < d - min_size

\* C10 as amended: a drawn split offset s lies in the half-open range
\* min_size <= s < d - min_size, and the children have lengths s and d - s.
C10_SplitInHalfOpenRange ==
    last.drew =>
        LET d == IF last.axis = "h" THEN last.rect.height ELSE last.rect.width
            a == last.out[1]
            b == last.out[2]
        IN  /\ min_size <= last.split /\ last.split < d - min_size
            /\ IF last.axis = "h"
               THEN a.height = last.split /\ b.height = d - last.split
               ELSE a.width = last.split /\ b.width = d - last.split

C10_Witness ==
    /\ last.drew
    /\ last.split = min_size
    /\ last.axis = "v"
    /\ last.rect.width > 2 * min_size + 1

----------------------------------------------------------------------------
(* Properties of setup_game, checked under GameSpec *)

CorridorsRouted == pc \in {"walls", "minimap"}

\* C4: for a map of width and height >= 3, once the corridors are routed a
\* flood fill over the floor cells from room 0's inner center reaches every
\* inner cell, and the inner center, of every room.
C4_RoomsConnected ==
    (CorridorsRouted /\ root.width >= 3 /\ root.height >= 3) =>
        LET reached == Flood(floor_positions, center(rooms[1].inner))
        IN  \A i \in 1..Len(rooms) :
                /\ Cells(rooms[i].inner) # {}
                /\ Cells(rooms[i].inner) \subseteq reached
                /\ center(rooms[i].inner) \in reached

C4_Witness ==
    /\ pc = "walls"
    /\ Len(rooms) >= 4
    /\ \E k \in 1..Len(corridors) : corridors[k].heads
    /\ \E k \in 1..Len(corridors) : ~corridors[k].heads

\* C5: no cell is both a floor cell and a cell a wall tile was spawned on.
C5_FloorWallDisjoint ==
    pc = "minimap" => DOMAIN walls \cap floor_positions = {}

C5_Witness ==
    /\ pc = "minimap"
    /\ Len(corridors) >= 2
    /\ DOMAIN walls # {}
    /\ \E k \in 1..Len(corridors) : ~(corridors[k].cells \subseteq
            UNION { Cells(rooms[i].inner) : i \in 1..Len(rooms) })

\* C6: the cells walls are spawned on are exactly the non-floor cells with a
\* floor cell among their 8 neighbours.
C6_WallsAreFloorNeighbours ==
    pc = "minimap" =>
        /\ DOMAIN walls \subseteq Grid
        /\ \A c \in Grid :
              c \in DOMAIN walls <=>
                  (c \notin floor_positions /\ Nbrs8(c) \cap floor_positions # {})

C6_Witness ==
    /\ pc = "minimap"
    /\ Len(rooms) >= 2
    /\ \E c \in DOMAIN walls :
          /\ Nbrs4(c) \cap floor_positions = {}
          /\ Nbrs8(c) \cap floor_positions # {}

\* the cells the claim names for a corridor from (x1, y1) to (x2, y2)
ClaimedCorridor(x1, y1, x2, y2, heads, grid) ==
    { c \in grid :
        IF heads
        THEN \/ (c.y = y1 /\ Min(x1, x2) <= c.x /\ c.x <= Max(x1, x2))
             \/ (c.x = x2 /\ Min(y1, y2) <= c.y /\ c.y <= Max(y1, y2))
        ELSE \/ (c.x = x1 /\ Min(y1, y2) <= c.y /\ c.y <= Max(y1, y2))
             \/ (c.y = y2 /\ Min(x1, x2) <= c.x /\ c.x <= Max(x1, x2)) }

\* C8: routing the corridor between consecutive rooms k and k + 1 adds to the
\* floor set exactly the two legs, endpoints included, that the coin selects,
\* and no other cell; the centers (2,2), (8,5) on heads give (2..8, 2) and (8, 2..5).
C8_CorridorCellsExact ==
    [][ Len(corridors') = Len(corridors) + 1 =>
          LET k  == Len(corridors')
              c1 == center(rooms[k].inner)
              c2 == center(rooms[k + 1].inner)
              legs == ClaimedCorridor(c1.x, c1.y, c2.x, c2.y, corridors'[k].heads, Grid)
          IN  /\ floor_positions' = floor_positions \cup legs
              /\ floor_positions' \subseteq Grid
              /\ corridor_cells(Position(2, 2), Position(8, 5), TRUE)
                    = { Position(x, 2) : x \in 2..8 } \cup { Position(8, y) : y \in 2..5 }
      ]_vars

C8_Witness ==
    /\ Len(corridors) >= 1
    /\ \E k \in 1..Len(corridors) :
          /\ corridors[k].heads
          /\ corridors[k].from.x # corridors[k].to.x
          /\ corridors[k].from.y # corridors[k].to.y
    /\ \E k \in 1..Len(corridors) :
          /\ ~corridors[k].heads
          /\ corridors[k].from.x # corridors[k].to.x
          /\ corridors[k].from.y # corridors[k].to.y

----------------------------------------------------------------------------
(* More properties of subdivide and bsp_split, checked under Spec *)

\* C11: a returned pair for parent (x,y,w,h) and offset s is (x,y,w,s),
\* (x,y+s,w,h-s) for a horizontal split and (x,y,s,h), (x+s,y,w-s,h) for a
\* vertical one; the children are disjoint and their union is the parent.
C11_ChildrenPartitionParent ==
    last.out # <<>> =>
        LET p == last.rect
            s == last.split
            a == last.out[1]
            b == last.out[2]
        IN  /\ last.axis = "h" =>
                  /\ a = [x |-> p.x, y |-> p.y, width |-> p.width, height |-> s]
                  /\ b = [x |-> p.x, y |-> p.y + s, width |-> p.width, height |-> p.height - s]
            /\ last.axis = "v" =>
                  /\ a = [x |-> p.x, y |-> p.y, width |-> s, height |-> p.height]
                  /\ b = [x |-> p.x + s, y |-> p.y, width |-> p.width - s, height |-> p.height]
            /\ last.axis \in {"h", "v"}
            /\ Cells(a) \cap Cells(b) = {}
            /\ Cells(a) \cup Cells(b) = Cells(p)

C11_Witness ==
    /\ ValidRoot
    /\ last.out # <<>>
    /\ last.axis = "h"
    /\ last.split > min_size
    /\ Cells(last.out[1]) # {}
    /\ Cells(last.out[2]) # {}

\* C12: subdivide returns None when height <= 12 and width <= 12 (as for
\* Rect{0,0,10,10}); it splits the height when only height > 12, the width when
\* only width > 12, and takes the axis from the coin only when both hold.
C12_OutcomeFollowsEligibility ==
    LET r == last.rect
        h == r.height > 12
        v == r.width > 12
    IN  /\ (~h /\ ~v) => (last.out = <<>> /\ ~last.drew /\ ~last.coin)
        /\ (h /\ ~v) =>
              /\ last.out # <<>>
              /\ ~last.coin
              /\ last.out[1].height + last.out[2].height = r.height
              /\ last.out[1].width = r.width /\ last.out[2].width = r.width
        /\ (v /\ ~h) =>
              /\ last.out # <<>>
              /\ ~last.coin
              /\ last.out[1].width + last.out[2].width = r.width
              /\ last.out[1].height = r.height /\ last.out[2].height = r.height
        /\ last.coin <=> (h /\ v)
        /\ \A o \in subdivide([x |-> 0, y |-> 0, width |-> 10, height |-> 10]) : o.out = <<>>

C12_Witness ==
    /\ last.out # <<>>
    /\ ~last.coin
    /\ last.axis = "v"
    /\ last.rect.height > 0

\* C13: with depth 0, or with a root of width <= 12 and height <= 12,
\* bsp_split returns exactly one Room, with id 0 and bounds equal to the root.
C13_DegenerateYieldsOneRoom ==
    (pc = "carved" /\ (depth = 0 \/ (root.width <= 12 /\ root.height <= 12))) =>
        /\ Len(rooms) = 1
        /\ rooms[1].id = 0
        /\ rooms[1].bounds = root

C13_Witness ==
    /\ pc = "carved"
    /\ depth = 0
    /\ root.width > 12
    /\ root.height > 12

\* C14: the Room at index i of the returned sequence has id i (0-based), and
\* no Room exists before the last round is over.
C14_IdIsIndex ==
    /\ pc = "split" => rooms = <<>>
    /\ pc = "carved" =>
          /\ \A i \in 1..Len(rooms) : rooms[i].id = i - 1
          /\ { rooms[i].id : i \in 1..Len(rooms) } = 0..(Len(rooms) - 1)
          /\ Len(rooms) = Len(leaves)

C14_Witness ==
    /\ pc = "carved"
    /\ Len(rooms) >= 4
    /\ rooms[4].id = 3

Range(s) == { s[i] : i \in 1..Len(s) }

\* rect a lies within rect b
Within(a, b) ==
    /\ b.x <= a.x /\ a.x + a.width <= b.x + b.width
    /\ b.y <= a.y /\ a.y + a.height <= b.y + b.height

\* the leaf of the current round that next[j] comes from
ParentOf(j) == CHOOSE i \in 1..Len(leaves) : Within(next[j], leaves[i])

\* C16: within a round the list under construction is the processed leaves in
\* their order, each either kept or replaced in place by its two children,
\* first child (at the parent's corner) immediately before the second; the
\* returned Rooms keep the order of the final leaf list.
C16_LineageOrder ==
    ValidRoot =>
        /\ pc = "split" =>
              /\ \A j \in 1..Len(next) :
                    \E i \in 1..(idx - 1) : Within(next[j], leaves[i])
              /\ \A j, k \in 1..Len(next) : j < k => ParentOf(j) <= ParentOf(k)
              /\ \A i \in 1..(idx - 1) :
                    LET kids == { j \in 1..Len(next) : ParentOf(j) = i }
                    IN  \E j \in kids :
                          \/ kids = {j} /\ next[j] = leaves[i]
                          \/ /\ kids = {j, j + 1}
                             /\ next[j].x = leaves[i].x /\ next[j].y = leaves[i].y
                             /\ (next[j + 1].x > leaves[i].x \/ next[j + 1].y > leaves[i].y)
        /\ pc = "carved" => Bounds(rooms) = leaves

C16_Witness ==
    /\ ValidRoot
    /\ pc = "split"
    /\ round >= 1
    /\ idx > Len(leaves)
    /\ Len(leaves) >= 3
    /\ Len(next) > Len(leaves)
    /\ next[1] = leaves[1]

\* subdivide can return None on r
CanFail(r) == \E o \in subdivide(r) : o.out = <<>>

\* C17: a leaf on which subdivide can return None fails on every retry, whatever
\* the draws, is carried unchanged into the leaf list of every later round, and
\* becomes the bounds of a returned Room.
C17_FailedLeafStays ==
    [][ \A i \in 1..Len(leaves) :
          (pc = "split" /\ CanFail(leaves[i])) =>
              /\ (idx' = idx + 1 /\ i = idx) =>
                    (last'.out = <<>> /\ next' = Append(next, leaves[i]))
              /\ round' = round + 1 => leaves[i] \in Range(leaves')
              /\ pc' = "carved" => \E k \in 1..Len(rooms') : rooms'[k].bounds = leaves[i]
      ]_vars

C17_Witness ==
    /\ pc = "carved"
    /\ round >= 3
    /\ Len(rooms) >= 3
    /\ last.out = <<>>
    /\ \E k \in 1..Len(rooms) : rooms[k].bounds = last.rect

----------------------------------------------------------------------------
(* More properties of setup_game, checked under GameSpec *)

\* the number of wall tiles spawned on cell c
TilesOn(c) == IF c \in DOMAIN walls THEN walls[c] ELSE 0

\* C20: on every non-floor cell the number of wall tiles spawned equals the
\* number of floor cells among its 8 neighbours: 1 to 8 on a wall cell, 0
\* elsewhere; nothing is deduplicated.
C20_WallTilesPerFloorNeighbour ==
    pc = "minimap" =>
        /\ DOMAIN walls \subseteq Grid
        /\ \A c \in Grid \ floor_positions :
              /\ TilesOn(c) = Cardinality(Nbrs8(c) \cap floor_positions)
              /\ c \in DOMAIN walls => (1 <= walls[c] /\ walls[c] <= 8)

C20_Witness ==
    /\ pc = "minimap"
    /\ \E c \in DOMAIN walls : walls[c] = 1
    /\ \E c \in DOMAIN walls : walls[c] >= 5

----------------------------------------------------------------------------
(* Properties of the running game, checked under PlaySpec *)

\* the cells a player step can lead to: any of the 8 unit deltas
PlayerSteps(p) == Nbrs8(p)

\* the cells an enemy step can lead to: one orthogonal step
EnemySteps(p) == Nbrs4(p)

\* C15: with wall entities on exactly the derived wall cells, after setup_game
\* and after any moves the player and every enemy stand on floor cells, and
\* for every candidate destination "not a wall cell" and "a floor cell" agree.
C15_MoversStayOnFloor ==
    pc = "running" =>
        /\ \A k \in 1..Len(players) :
              /\ players[k] \in floor_positions
              /\ \A n \in PlayerSteps(players[k]) :
                    (n \notin DOMAIN walls) <=> (n \in floor_positions)
        /\ \A k \in 1..Len(enemies) :
              /\ enemies[k] \in floor_positions
              /\ \A n \in EnemySteps(enemies[k]) :
                    (n \notin DOMAIN walls) <=> (n \in floor_positions)

C15_Witness ==
    /\ pc = "running"
    /\ Len(players) = 1
    /\ Len(enemies) = 1
    /\ Len(rooms) >= 2
    /\ InRect(players[1], rooms[2].inner)
    /\ InRect(enemies[1], rooms[1].inner)
    /\ PlayerSteps(players[1]) \cap DOMAIN walls # {}

\* C18: the transition to InGame is requested only from the menu and only
\* with a class selected, so a run that starts in Menu never reaches the
\* "No class selected!" panic; setup_game panics exactly when SelectedClass is None.
C18_MenuEntrySelectsClass ==
    /\ next_state = "InGame" => (app_state = "Menu" /\ selected_class \in Classes)
    /\ (started_in = "Menu" /\ app_state = "InGame") => selected_class \in Classes
    /\ started_in = "Menu" => pc # "panicked"
    /\ pc = "panicked" => (selected_class = "None" /\ players = <<>>)
    /\ pc = "running" => (selected_class \in Classes /\ Len(players) = 1)

C18_Witness ==
    /\ started_in = "Menu"
    /\ pc = "running"
    /\ selected_class = "Mage"

C18_PanicWitness ==
    /\ started_in = "InGame"
    /\ pc = "panicked"

\* the rooms whose inner rectangle contains cell p
RoomsAround(p) == { i \in 1..Len(rooms) : InRect(p, rooms[i].inner) }

\* the room ids of the minimap tiles coloured yellow
Highlighted == { tile.room : tile \in { u \in DOMAIN tile_color : tile_color[u] = "YELLOW" } }

\* C19: after each run of update_minimap_highlight the yellow minimap tiles
\* are exactly those of the room whose inner contains the player, every other
\* tile is dark gray, at most one room is highlighted, none when the player is
\* outside every inner; matching stored cells agrees with containment in inner.
C19_HighlightFollowsPlayer ==
    [][ (UpdateMinimapHighlight /\ Len(players) = 1) =>
          LET around == RoomsAround(players'[1])
          IN  /\ Cardinality(around) <= 1
              /\ \A tile \in DOMAIN tile_color' :
                    tile_color'[tile] =
                        IF \E i \in around : rooms[i].id = tile.room
                        THEN "YELLOW" ELSE "DARK_GRAY"
              /\ current_room_ids(stored_room_tiles(rooms), players'[1])
                    = IF around = {} THEN { {} } ELSE { {rooms[i].id} : i \in around }
              /\ DOMAIN tile_color' = room_tiles(rooms)
      ]_vars

\* the player stands in the second room and it is the one highlighted
C19_Witness ==
    /\ pc = "running"
    /\ Len(players) = 1
    /\ Len(rooms) >= 2
    /\ InRect(players[1], rooms[2].inner)
    /\ Highlighted = {1}

\* the player stands on a corridor cell outside every room and nothing is
\* highlighted although a room was highlighted before
C19_CorridorWitness ==
    /\ pc = "running"
    /\ Len(players) = 1
    /\ RoomsAround(players[1]) = {}
    /\ Highlighted = {}

----------------------------------------------------------------------------
(* The inner guard of subdivide, checked under Spec *)

\* subdivide can select an axis on r and still return None
AbandonedOn(r) == \E o \in subdivide(r) : o.axis # "none" /\ o.out = <<>>

\* C21: once subdivide has selected an axis the guard min_split < max_split
\* holds: on a rect with width > 12 or height > 12 every draw returns a pair,
\* the offset is drawn from a non-empty range, and None is returned exactly
\* when width <= 12 and height <= 12; no split is abandoned on an eligible axis.
C21_InnerGuardNeverFails ==
    /\ last.axis # "none" =>
          LET d == IF last.axis = "h" THEN last.rect.height ELSE last.rect.width
          IN  /\ last.drew
              /\ last.out # <<>>
              /\ gen_range(min_size, d - min_size) # {}
              /\ last.split \in gen_range(min_size, d - min_size)
    /\ last.out = <<>> <=> (last.rect.width <= 12 /\ last.rect.height <= 12)
    /\ \A i \in 1..Len(leaves) :
          LET r == leaves[i]
          IN  /\ subdivide(r) # {}
              /\ ~AbandonedOn(r)
              /\ (r.width > 12 \/ r.height > 12) => \A o \in subdivide(r) : o.out # <<>>
              /\ (r.width <= 12 /\ r.height <= 12) => \A o \in subdivide(r) : o.out = <<>>

\* the smallest eligible height, taken by the coin: the range 6..7 holds one offset
C21_Witness ==
    /\ last.axis = "h"
    /\ last.coin
    /\ last.rect.height = 2 * min_size + 1
    /\ last.out # <<>>
    /\ last.split = min_size

----------------------------------------------------------------------------
(* The map's outer ring, checked under GameSpec *)

\* the root without its outermost ring of cells
Interior == Cells(Rect(root.x + 1, root.y + 1, root.width - 2, root.height - 2))

\* C22: for a map of width and height >= 3 every floor cell, of a room or of a
\* corridor, has root.x + 1 <= x <= root.x + width - 2 and root.y + 1 <= y <=
\* root.y + height - 2, and every wall cell lies inside the root: nothing is
\* placed outside the map and the outermost ring holds no floor cell.
C22_FloorInsideRing ==
    (root.width >= 3 /\ root.height >= 3) =>
        /\ \A c \in floor_positions :
              /\ root.x + 1 <= c.x /\ c.x <= root.x + root.width - 2
              /\ root.y + 1 <= c.y /\ c.y <= root.y + root.height - 2
        /\ floor_positions \cap (Cells(root) \ Interior) = {}
        /\ \A k \in 1..Len(corridors) : corridors[k].cells \subseteq Interior
        /\ \A c \in DOMAIN walls : InRect(c, root)

\* walls spawned around rooms and a corridor that leaves the rooms, with floor
\* next to the ring on the left and on the right and walls on the ring itself
C22_Witness ==
    /\ pc = "minimap"
    /\ root.width >= 3 /\ root.height >= 3
    /\ Len(rooms) >= 3
    /\ \E k \in 1..Len(corridors) : ~(corridors[k].cells \subseteq
            UNION { Cells(rooms[i].inner) : i \in 1..Len(rooms) })
    /\ \E c \in floor_positions : c.x = root.x + 1
    /\ \E c \in floor_positions : c.x = root.x + root.width - 2
    /\ \E c \in DOMAIN walls : c.x = root.x /\ c.y = root.y
    /\ \E c \in DOMAIN walls : c.x = root.x + root.width - 1

----------------------------------------------------------------------------
(* Minimum sizes, checked under Spec *)

\* both dimensions of r are at least n
AtLeast(r, n) == r.width >= n /\ r.height >= n

\* C23: each rect a split produces is at least min_size = 6 long along the
\* split axis; so on a root of width and height >= 6 every leaf of every round
\* has width and height >= 6, every returned Room has inner width and height
\* >= 4, and the inners of distinct Rooms share no cell.
C23_MinimumSizes ==
    /\ last.out # <<>> =>
          IF last.axis = "h"
          THEN last.out[1].height >= 6 /\ last.out[2].height >= 6
          ELSE last.out[1].width >= 6 /\ last.out[2].width >= 6
    /\ AtLeast(root, 6) =>
          /\ \A i \in 1..Len(leaves) : AtLeast(leaves[i], 6)
          /\ \A j \in 1..Len(next) : AtLeast(next[j], 6)
          /\ \A i \in 1..Len(rooms) :
                /\ AtLeast(rooms[i].bounds, 6)
                /\ AtLeast(rooms[i].inner, 4)
          /\ \A i, j \in 1..Len(rooms) :
                i # j => Cells(rooms[i].inner) \cap Cells(rooms[j].inner) = {}

\* rooms from splits along both axes, with a leaf of the least width, a leaf of
\* the least height and an inner of the least width
C23_Witness ==
    /\ pc = "carved"
    /\ AtLeast(root, 6)
    /\ Len(rooms) >= 3
    /\ \E i \in 1..Len(rooms) : rooms[i].bounds.width = 6 /\ rooms[i].inner.width = 4
    /\ \E i \in 1..Len(rooms) : rooms[i].bounds.height = 6 /\ rooms[i].inner.height = 4

====
